---- MODULE Spec2Model ----
(***************************************************************************)
(* Model of the V2Ray subscription rewriter: the link-rewriting engine of  *)
(* services/v2rayService.ts and the location resolver of                   *)
(* services/geoIpService.ts with its later revisions.                      *)
(*                                                                         *)
(* Text is modelled by what the code can observe of it.  A Base64 payload  *)
(* is a pair (enc, text): enc says which alphabet decodes it ("std",       *)
(* "url") or that nothing does ("bad"); text is what it decodes to.  A     *)
(* JSON text is its kind ("empty", "invalid", "null", "prim", "arr",       *)
(* "obj"), whether it is byte-for-byte what JSON.stringify would print     *)
(* (canon), and the object it parses to.  A URI is its parsed components   *)
(* and whether it is byte-for-byte what the URL serializer would print     *)
(* (norm).  An alias is the sequence of parts that join(' ') glues.        *)
(***************************************************************************)
EXTENDS Integers, Sequences, FiniteSets, TLC

VARIABLES
    line,       \* SpecLine: the trimmed input line handed to a handler
    options,    \* the ProcessingOptions of the run
    index,      \* SpecLine: position of the line in the input
    loc,        \* SpecLine: location looked up for the line's host
    out,        \* SpecLine: the handler's result, Pending before it ran
    rev,        \* which revision of the location resolver (SpecExport: of the
                \* exporting service) is linked in
    input,      \* processConfigs: the trimmed, non-empty input lines
    cache,      \* the persisted location cache (localStorage), key -> record
    storage,    \* whether localStorage accepts a write: "ok", "full", "flaky"
    pc,         \* where processConfigs / batchResolve stands
    hosts,      \* batchResolve: uniqueHosts, in insertion order
    gi,         \* batchResolve: index of the first host of the current group
    task,       \* per host: the resolveLocation call in progress
    results,    \* batchResolve: the host -> record mapping being built
    doc,        \* processConfigs: the returned document
    raised,     \* an exception escaped processConfigs
    invoked,    \* history: resolveLocation calls per host
    provLog,    \* history: targets submitted to a geolocation provider
    delays,     \* history: inter-group delays that have elapsed
    calls,      \* SpecResolve: resolveLocation calls made so far
    netCalls,   \* history: network requests issued by the current call
    hist        \* SpecResolve history: the cache at the head of the call, the
                \* providers that missed in it, its last DNS answer, what the
                \* first call did

lineVars == <<line, options, index, loc, out>>
resolverVars == <<rev, cache, storage, task, invoked, provLog, netCalls>>
batchVars == <<input, pc, hosts, gi, results, doc, raised, delays>>
callVars == <<calls, hist>>
vars == <<lineVars, resolverVars, batchVars, callVars>>

\* ------------------------------------------------------------------ values

Absent == "<absent>"        \* undefined JSON member / missing query parameter
Pending == [scheme |-> "<pending>"]
OriginHost == "origin.example"   \* the server address of the sample links

\* model bound: indices 0 .. MaxIndex-1 are tried for a line
MaxIndex == 2

\* LocationData (services/geoIpService.ts:1-5)
NoLoc == [flag |-> Absent, country |-> Absent, city |-> Absent]
LocUS == [flag |-> "US-flag", country |-> "United States", city |-> "Dallas"]
LocDE == [flag |-> "DE-flag", country |-> "Germany", city |-> ""]
LocNoCountry == [flag |-> "", country |-> "", city |-> ""]

\* ProcessingOptions (types.ts:16-30, plus customBaseName read by
\* generateNewAlias)
CdnValues == {"", "1.2.3.4", "bad host"}
IsValidHostText(s) == s \notin {"", "bad host"}

OptionSet ==
    [enableCDNIP : BOOLEAN, customCDN : CdnValues,
     enableMux : BOOLEAN, muxConcurrency : {8},
     enableFragment : BOOLEAN, allowInsecure : BOOLEAN,
     enableALPN : BOOLEAN, addLocationFlag : BOOLEAN,
     customBaseName : {""}]

\* ------------------------------------------------------------------ codec

EmptyText == [kind |-> "empty"]     \* the empty string ""

\* atob(str) of services/v2rayService.ts:7: succeeds on the standard alphabet
AtobOk(p) == p.enc = "std"
\* atob after replacing - by + and _ by / (services/v2rayService.ts:10-11)
AtobFixedOk(p) == p.enc \in {"std", "url"}

safeB64Decode(p) ==
    IF AtobOk(p) THEN p.text
    ELSE IF AtobFixedOk(p) THEN p.text
    ELSE EmptyText

safeB64Encode(t) == [enc |-> "std", text |-> t]

\* replaces the URL-safe characters, pads to a multiple of four, then decodes
safeBase64UrlDecode(p) ==
    safeB64Decode([enc |-> IF p.enc = "url" THEN "std" ELSE p.enc, text |-> p.text])

\* standard encoding with + / replaced and the trailing = stripped
safeBase64UrlEncode(t) == [enc |-> "url", text |-> safeB64Encode(t).text]

\* ------------------------------------------------------------------ alias

\* String.prototype.trim on the base names of the model
Trim(s) == IF s = " Mine " THEN "Mine" ELSE IF s = "  " THEN "" ELSE s

\* parts.join(' '): the alias is kept as its parts in order, the index last
generateNewAlias(originalAlias, idx, location, opts) ==
    LET locParts == IF location # NoLoc /\ location.country # ""
                    THEN <<location.flag, location.country>>
                    ELSE <<>>
        baseName == IF opts.customBaseName # "" /\ Trim(opts.customBaseName) # ""
                    THEN Trim(opts.customBaseName)
                    ELSE "VS"
    IN [parts |-> locParts \o <<baseName>>, num |-> idx + 1]

OldAlias == [parts |-> <<"old name">>, num |-> 0]   \* a display name as received

\* ------------------------------------------------------------------ VMess

\* the object JSON.parse returns for a VMess payload; Absent = undefined member
VmessObj(add, net, tls, host, sni) ==
    [add |-> add, port |-> "443", id |-> "uuid-1", net |-> net, tls |-> tls,
     host |-> host, sni |-> sni, alpn |-> Absent, mux |-> 0, ps |-> OldAlias]

NoObj == VmessObj(Absent, Absent, Absent, Absent, Absent)

JsonText(kind, canon, obj) == [kind |-> kind, canon |-> canon, obj |-> obj]

VmessLine(enc, text) == [scheme |-> "vmess", enc |-> enc, text |-> text]

\* the strict-mode TypeError / SyntaxError cases of processVmess's try block:
\* JSON.parse of a non-JSON text, member access on null, member assignment on
\* a primitive
\* variant: JSON.parse accepts any text
VmessThrowsLenient(jsonStr) == jsonStr.kind \in {"null", "prim"}
VmessThrows(jsonStr) == jsonStr.kind \in {"invalid", "null", "prim"}

\* CDN rule of processVmess (services/v2rayService.ts:156-161)
VmessCdn(config, opts) ==
    IF opts.enableCDNIP /\ opts.customCDN # "" /\ config.net \in {"ws", "grpc"}
    THEN [config EXCEPT
            !.add = opts.customCDN,
            !.host = IF config.host \in {Absent, ""} THEN config.add ELSE @,
            !.sni = IF config.tls = "tls" /\ config.sni \in {Absent, ""}
                    THEN config.add ELSE @]
    ELSE config

\* mux rule (services/v2rayService.ts:163-168); mux = 0 is "no mux member"
VmessMux(config, opts) ==
    IF opts.enableMux
    THEN [config EXCEPT !.mux = IF opts.muxConcurrency # 0
                                THEN opts.muxConcurrency ELSE 8]
    ELSE config

\* ALPN rule (services/v2rayService.ts:170-172)
VmessAlpn(config, opts) ==
    IF opts.enableALPN /\ config.tls = "tls"
    THEN [config EXCEPT !.alpn = "h2,http/1.1"]
    ELSE config

processVmess(link, opts, idx, location) ==
    LET jsonStr == safeB64Decode([enc |-> link.enc, text |-> link.text])
    IN IF jsonStr = EmptyText THEN link
       ELSE IF VmessThrows(jsonStr) THEN link
       ELSE IF jsonStr.kind = "arr"
       THEN VmessLine("std", JsonText("arr", TRUE, NoObj))
       ELSE LET c1 == VmessCdn(jsonStr.obj, opts)
                c2 == VmessMux(c1, opts)
                c3 == VmessAlpn(c2, opts)
                c4 == [c3 EXCEPT !.ps = generateNewAlias(c3.ps, idx, location, opts)]
            IN VmessLine(safeB64Encode(JsonText("obj", TRUE, c4)).enc,
                         JsonText("obj", TRUE, c4))

\* ------------------------------------------------------------------ SSR

\* the text an SSR payload decodes to: main part, and the query after "/?"
SsrText(main, remarks) == [kind |-> "ssr", main |-> main, remarks |-> remarks]

SsrLine(enc, text) == [scheme |-> "ssr", enc |-> enc, text |-> text]

NoRemarks == [enc |-> "none", text |-> OldAlias]    \* no remarks parameter

\* decoded.split('/?') of processSSR: [0] is the main part, the rest the query;
\* the empty string splits into one empty part
SsrMainPart(decoded) == IF decoded = EmptyText THEN "" ELSE decoded.main

processSSR(link, opts, idx, location) ==
    LET decoded == safeBase64UrlDecode([enc |-> link.enc, text |-> link.text])
        mainPart == SsrMainPart(decoded)
        newAlias == generateNewAlias(OldAlias, idx, location, opts)
        newDecoded == SsrText(mainPart, safeBase64UrlEncode(newAlias))
    IN SsrLine(safeBase64UrlEncode(newDecoded).enc, newDecoded)

\* ------------------------------------------------------------------ URI links

\* the query parameters the handler reads or writes; Absent = not in the query
Query(type, serviceName, mode, host, sni, security) ==
    [type |-> type, serviceName |-> serviceName, mode |-> mode, host |-> host,
     sni |-> sni, security |-> security, alpn |-> Absent, mux |-> Absent,
     concurrency |-> 0, fragment |-> Absent, allowInsecure |-> Absent]

NoQuery == Query(Absent, Absent, Absent, Absent, Absent, Absent)

\* form: "uri" (scheme://user@host:port?query#name), "legacy" (ss:// followed
\* by the Base64 of user@host:port, no @ in the line) or "broken" (text the URL
\* parser rejects); enc is the alphabet of a legacy payload
UriLine(scheme, form, enc, hostname, q, hash, norm) ==
    [scheme |-> scheme, form |-> form, enc |-> enc, user |-> "user-1",
     hostname |-> hostname, port |-> "443", q |-> q, hash |-> hash, norm |-> norm]

\* the pre-processing of legacy Shadowsocks (services/v2rayService.ts:213-224):
\* the line handed to the URL parser
LegacyOriginalLink(link) ==
    IF link.scheme = "ss" /\ link.form = "legacy"
    THEN LET decoded == safeBase64UrlDecode([enc |-> link.enc, text |-> [kind |-> "userhost"]])
         IN IF decoded # EmptyText
            THEN [link EXCEPT !.form = "uri", !.enc = "none"]
            ELSE link
    ELSE link

\* new URL(text): a broken text throws; a legacy payload that was not decoded
\* parses as a URI whose host is the payload text
UrlThrows(l) == l.form = "broken"
\* variant: a parser that drops the port, as URL does with the default port
\* of a special scheme
UrlParseNoPort(l) == [l EXCEPT !.port = Absent]
UrlParse(l) ==
    IF l.form = "legacy"
    THEN [l EXCEPT !.form = "uri", !.enc = "none", !.user = Absent,
                   !.hostname = "payload-text", !.port = Absent]
    ELSE l

isWsOrGrpc(q) ==
    \/ q.type = "ws"
    \/ q.type = "grpc"
    \/ q.mode = "grpc"
    \/ q.serviceName \notin {Absent, ""}

IsTlsLike(security) == security \in {"tls", "reality", "xtls"}

\* the hostname setter of URL ignores a value that is no valid host
SetHostname(u, value) ==
    IF IsValidHostText(value) THEN [u EXCEPT !.hostname = value] ELSE u

\* CDN rule of processUrlBased (services/v2rayService.ts:238-246)
UrlCdn(u, opts) ==
    IF opts.enableCDNIP /\ opts.customCDN # "" /\ isWsOrGrpc(u.q)
    THEN LET originalHost == u.hostname
             u1 == SetHostname(u, opts.customCDN)
         IN [u1 EXCEPT
               !.q.host = IF @ = Absent THEN originalHost ELSE @,
               !.q.sni = IF @ = Absent /\ IsTlsLike(u.q.security)
                         THEN originalHost ELSE @]
    ELSE u

\* mux rule (services/v2rayService.ts:248-251)
UrlMux(u, opts) ==
    IF opts.enableMux
    THEN [u EXCEPT !.q.mux = "true", !.q.concurrency = opts.muxConcurrency]
    ELSE u

\* fragment rule (services/v2rayService.ts:253-255)
UrlFragment(u, opts) ==
    IF opts.enableFragment
    THEN [u EXCEPT !.q.fragment = "length,interval,random"]
    ELSE u

\* allow-insecure rule (services/v2rayService.ts:257-259)
UrlInsecure(u, opts) ==
    IF opts.allowInsecure THEN [u EXCEPT !.q.allowInsecure = "1"] ELSE u

\* ALPN rule (services/v2rayService.ts:261-266)
UrlAlpn(u, opts) ==
    IF opts.enableALPN /\ IsTlsLike(u.q.security)
    THEN [u EXCEPT !.q.alpn = "h2,http/1.1"]
    ELSE u

processUrlBased(link, opts, idx, location) ==
    LET originalLink == LegacyOriginalLink(link)
    IN IF UrlThrows(originalLink) THEN link
       ELSE LET u0 == UrlParse(originalLink)
                u1 == UrlCdn(u0, opts)
                u2 == UrlMux(u1, opts)
                u3 == UrlFragment(u2, opts)
                u4 == UrlInsecure(u3, opts)
                u5 == UrlAlpn(u4, opts)
                newAlias == generateNewAlias(OldAlias, idx, location, opts)
            IN [u5 EXCEPT !.hash = newAlias, !.norm = TRUE]

\* a line of no supported scheme
OtherLine == [scheme |-> "other"]

\* variant: a line of no supported scheme is dropped
ProcessLineDropsUnknown(l, opts, idx, location) ==
    IF l.scheme = "vmess" THEN processVmess(l, opts, idx, location)
    ELSE IF l.scheme = "ssr" THEN processSSR(l, opts, idx, location)
    ELSE IF l.scheme \in {"vless", "trojan", "ss"}
    THEN processUrlBased(l, opts, idx, location)
    ELSE EmptyText

\* the dispatch of processConfigs (services/v2rayService.ts:294-301)
ProcessLine(l, opts, idx, location) ==
    IF l.scheme = "vmess" THEN processVmess(l, opts, idx, location)
    ELSE IF l.scheme = "ssr" THEN processSSR(l, opts, idx, location)
    ELSE IF l.scheme \in {"vless", "trojan", "ss"}
    THEN processUrlBased(l, opts, idx, location)
    ELSE l

\* ================================================================== resolver

\* The revisions of the location resolver in the repository:
\*   full_v2    services/geoIpService.ts:1-101   (cache key ..._full_cache_v2)
\*   cache_v5   unnamed/part_001:1-137           (cache key ..._cache_v5)
\*   robust_v4  types.ts:50-241                  (cache key ..._robust_v4)
\*   robust_v5  unnamed/part_001:139-326         (cache key ..._robust_v5)
Revs == {"full_v2", "cache_v5", "robust_v4", "robust_v5"}
IsRobust(r) == r \in {"robust_v4", "robust_v5"}

\* ------------------------------------------------------------------ hosts

Domains == <<"a.example", "b.example", "c.example", "d.example", "e.example">>
DomainSet == {Domains[i] : i \in 1 .. Len(Domains)}
AnswerIP == "9.9.9.9"           \* the A record a DNS answer carries
CnameTarget == "edge.example"   \* the CNAME record a DNS answer may start with
PayloadHost == "payload-text"   \* host the URL parser finds in an undecoded ss:// payload

IPv4Literals == {"127.0.0.1", "10.0.0.1", "192.168.1.1", "8.8.8.8", AnswerIP}
IPv6Literals == {"2001:db8::1"}
AllHosts ==
    DomainSet \cup IPv4Literals \cup IPv6Literals
        \cup {"", "ab", "localhost", "junk", OriginHost, CnameTarget, PayloadHost}

\* host.length < 3
IsShort(h) == h \in {"", "ab"}
\* /[a-zA-Z]/.test(host) && !host.includes(':')
IsDomainLike(h) == h \notin IPv4Literals \cup IPv6Literals \cup {""}
\* host.includes('127.0.0.1') || host.includes('localhost') || host.includes('::1')
ContainsLocal(h) == h \in {"127.0.0.1", "localhost"}

isIP(str) == str \in IPv4Literals \/ str \in IPv6Literals

\* the alternatives of the regular expression of isPrivateIP: the prefixes
\* 10., 127., 169.254., 192.168., 172.16-31., and the bare alternative \.
\* that matches a dot anywhere
HasPrivatePrefix(ip) == ip \in {"127.0.0.1", "10.0.0.1", "192.168.1.1"}
ContainsDot(ip) == ip \in IPv4Literals \cup DomainSet \cup {OriginHost, CnameTarget}
isPrivateIP(ip) ==
    IF ~isIP(ip) THEN ip = "localhost"
    ELSE HasPrivatePrefix(ip) \/ ContainsDot(ip)

\* isValidHost of cache_v5 (unnamed/part_001:34-38)
isValidHost(h) == ~IsShort(h) /\ ~ContainsLocal(h)

\* the guard at the head of resolveLocation
RejectsAtEntry(r, h) ==
    IF r = "full_v2" THEN h = ""
    ELSE IF r = "cache_v5" THEN ~isValidHost(h)
    ELSE h = "" \/ IsShort(h)

\* the filter of batchResolve
BatchKeeps(r, h) ==
    IF r = "full_v2" THEN h # ""
    ELSE IF r = "cache_v5" THEN isValidHost(h)
    ELSE IF r = "robust_v4" THEN h # "" /\ h # "localhost" /\ h # "127.0.0.1"
    ELSE h # "" /\ ~ContainsLocal(h)

\* whether resolveLocation asks DNS for the host
NeedsDns(r, h) == IF IsRobust(r) THEN ~isIP(h) ELSE IsDomainLike(h)

\* BATCH_SIZE / CHUNK_SIZE; robust_v4 resolves one host at a time
BATCH_SIZE == 2
CHUNK_SIZE == 3
\* variant: the whole host list is one group
GroupSizeWhole(r) == 2 * CHUNK_SIZE
GroupSize(r) ==
    IF r = "robust_v5" THEN CHUNK_SIZE ELSE IF r = "robust_v4" THEN 1 ELSE BATCH_SIZE

\* the provider chain, in query order; "ipwhoStrict" compares the reported IP
Providers(r) ==
    IF r = "full_v2" THEN <<"ipwho">>
    ELSE IF r = "cache_v5" THEN <<"ipwho", "geojs">>
    ELSE IF r = "robust_v4" THEN <<"ipwhoStrict", "v2fly">>
    ELSE <<"geojs", "ipwhoStrict", "v2fly">>

\* ------------------------------------------------------------------ cache

\* a mapping host -> record holds the keys that are set; Get is the lookup
\* m[k], undefined (NoLoc) for a key that is not set
EmptyCache == [k \in {} |-> NoLoc]
Get(m, k) == IF k \in DOMAIN m THEN m[k] ELSE NoLoc
Put(m, k, v) == [x \in DOMAIN m \cup {k} |-> IF x = k THEN v ELSE m[x]]


\* variant: the store is overwritten with the new entry alone
updateCacheOverwrites(c, r, host, data, quota) ==
    IF ~quota THEN Put(EmptyCache, host, data)
    ELSE IF IsRobust(r) THEN EmptyCache
    ELSE c

\* updateCache(host, data): re-reads the stored cache, sets the key, stores it.
\* quota = the store refuses the write.  The robust revisions catch that and
\* clear the store; the others let the exception out (Threw).
updateCache(c, r, host, data, quota) ==
    IF ~quota THEN Put(c, host, data)
    ELSE IF IsRobust(r) THEN EmptyCache
    ELSE c

UpdateCacheThrows(r, quota) == quota /\ ~IsRobust(r)

\* the location a provider reports for a target, and the one it reports when
\* it answers about the caller's own address instead (a rate-limited ipwho.is)
ProviderLoc(prov) == IF prov = "geojs" THEN LocDE ELSE LocUS
LocSelf == [flag |-> "IR-flag", country |-> "Iran", city |-> "Tehran"]

\* what a provider adapter returns for a response: a record or NoLoc (null)
ProviderResult(prov, target, resp) ==
    IF resp = "ok" THEN ProviderLoc(prov)
    ELSE IF resp = "spoof"
    THEN IF prov = "ipwhoStrict" /\ isIP(target) THEN NoLoc ELSE LocSelf
    ELSE NoLoc

Responses == {"fail", "reject", "ok", "spoof"}

\* the writes localStorage may refuse: none, every one until the store is
\* cleared, or any
QuotaChoices(st) == IF st = "ok" THEN {FALSE} ELSE IF st = "full" THEN {TRUE} ELSE BOOLEAN
\* localStorage.clear() of the robust revisions makes room again
StorageAfter(r, st, quota) == IF st = "full" /\ quota /\ IsRobust(r) THEN "ok" ELSE st
DnsOutcomes == {"fail", "none", "a", "cname"}
\* a direct call is tried against every response; in a batch run the response
\* that differs from "ok" only in the record it carries is left out
ResponsesAt(where) == IF where = "direct" THEN Responses ELSE Responses \ {"spoof"}

\* ------------------------------------------------------------------ resolveLocation

\* one resolveLocation call: pc is the await it is suspended at ("jitter" the
\* timer batchResolve of full_v2 puts before the call, "dns" / "dns2" the first
\* and second DNS-over-HTTPS request, "prov" the request to provider k, "wait"
\* the delay before provider k), target the address handed to the providers,
\* snap the cache object read at the head of the call
Count(m, k) == IF k \in DOMAIN m THEN m[k] ELSE 0

IdleTask == [pc |-> "idle", k |-> 0, target |-> "", snap |-> EmptyCache, result |-> NoLoc]
TaskOf(h) == IF h \in DOMAIN task THEN task[h] ELSE IdleTask

\* the entries of the cache object a call can still read after its first await:
\* those of the addresses DNS can answer with
Snapshot(c) == [k \in DOMAIN c \cap {AnswerIP, CnameTarget} |-> c[k]]

Returned(t, res) ==
    [t EXCEPT !.pc = "done", !.k = 0, !.target = "", !.snap = EmptyCache, !.result = res]

\* the outcome of one synchronous stretch of a call: the task, the cache, the
\* provider requests and the number of network requests it issued, and
\* whether an exception left resolveLocation
Outcome(t, c, log, n, threw) ==
    [t |-> t, c |-> c, log |-> log, n |-> n, threw |-> threw, cleared |-> FALSE]
\* the same, after localStorage.clear() ran in updateCache
Cleared(o, yes) == [o EXCEPT !.cleared = yes]

\* whether the try blocks of resolveLocation catch what updateCache throws
\* (services/geoIpService.ts:40,76; unnamed/part_001:66,85,90,109)
\* variant: updateCache is called outside the try blocks
ResolveCatchesNothing(r) == FALSE
ResolveCatches(r) == TRUE

QueryProvider(r, c, h, t, k, target) ==
    Outcome([t EXCEPT !.pc = "prov", !.k = k, !.target = target, !.snap = EmptyCache],
            c, {target}, 1, FALSE)

\* after the DNS step: the private-address check and the lookup of the
\* resolved address in the cache object (robust revisions), then provider 1
AfterDns(r, c, h, t, target, quota) ==
    IF IsRobust(r) /\ isPrivateIP(target)
    THEN Outcome(Returned(t, NoLoc), c, {}, 0, FALSE)
    ELSE IF IsRobust(r) /\ target # h /\ Get(t.snap, target) # NoLoc
    THEN Cleared(Outcome(Returned(t, Get(t.snap, target)),
                         updateCache(c, r, h, Get(t.snap, target), quota), {}, 0, FALSE),
                 quota)
    ELSE QueryProvider(r, c, h, t, 1, target)

\* variant: resolveLocation without the cache lookup at its head
StartResolveUncached(r, c, h) ==
    LET t == [IdleTask EXCEPT !.snap = IF IsRobust(r) THEN Snapshot(c) ELSE EmptyCache]
    IN IF RejectsAtEntry(r, h) THEN Outcome(Returned(t, NoLoc), c, {}, 0, FALSE)
       ELSE IF NeedsDns(r, h)
       THEN Outcome([t EXCEPT !.pc = "dns", !.target = h], c, {}, 1, FALSE)
       ELSE AfterDns(r, c, h, t, h, FALSE)

\* the synchronous head of resolveLocation(host)
StartResolve(r, c, h) ==
    LET t == [IdleTask EXCEPT !.snap = IF IsRobust(r) THEN Snapshot(c) ELSE EmptyCache]
    IN IF RejectsAtEntry(r, h) THEN Outcome(Returned(t, NoLoc), c, {}, 0, FALSE)
       ELSE IF Get(c, h) # NoLoc THEN Outcome(Returned(t, Get(c, h)), c, {}, 0, FALSE)
       ELSE IF NeedsDns(r, h)
       THEN Outcome([t EXCEPT !.pc = "dns", !.target = h], c, {}, 1, FALSE)
       ELSE AfterDns(r, c, h, t, h, FALSE)

\* the address the first DNS request yields: "" = ask the second resolver
DnsTarget(r, h, outcome) ==
    IF outcome = "a" THEN AnswerIP
    ELSE IF outcome = "cname" THEN (IF r = "robust_v5" THEN CnameTarget ELSE AnswerIP)
    ELSE IF r = "robust_v5" \/ (r = "robust_v4" /\ outcome = "fail") THEN ""
    ELSE h

\* the address the second DNS request (Google, robust revisions) yields
Dns2Target(r, h, outcome) ==
    IF outcome = "a" THEN AnswerIP
    ELSE IF outcome = "cname" THEN (IF r = "robust_v5" THEN CnameTarget ELSE AnswerIP)
    ELSE h

\* variant: a DNS request without an answer ends the call with null
DnsResponseGivesUp(r, c, h, t, outcome, quota) ==
    LET target == IF t.pc = "dns" THEN DnsTarget(r, h, outcome)
                  ELSE Dns2Target(r, h, outcome)
    IN IF outcome \in {"fail", "none"}
       THEN Outcome(Returned(t, NoLoc), c, {}, 0, FALSE)
       ELSE AfterDns(r, c, h, t, target, quota)

DnsResponse(r, c, h, t, outcome, quota) ==
    LET target == IF t.pc = "dns" THEN DnsTarget(r, h, outcome)
                  ELSE Dns2Target(r, h, outcome)
    IN IF target = ""
       THEN Outcome([t EXCEPT !.pc = "dns2"], c, {}, 1, FALSE)
       ELSE AfterDns(r, c, h, t, target, quota)

\* variant: a miss of the last provider is cached as an empty record
ProviderResponseNegative(r, c, h, t, resp, q1, q2) ==
    LET res == ProviderResult(Providers(r)[t.k], t.target, resp)
        more == t.k < Len(Providers(r))
    IN IF res # NoLoc
       THEN Outcome(Returned(t, res), updateCache(c, r, h, res, FALSE), {}, 0, FALSE)
       ELSE IF more
       THEN IF IsRobust(r)
            THEN Outcome([t EXCEPT !.pc = "wait"], c, {}, 0, FALSE)
            ELSE QueryProvider(r, c, h, t, t.k + 1, t.target)
       ELSE Outcome(Returned(t, NoLoc), Put(c, h, LocNoCountry), {}, 0, FALSE)

\* a provider's response arrives
ProviderResponse(r, c, h, t, resp, q1, q2) ==
    LET prov == Providers(r)[t.k]
        res == ProviderResult(prov, t.target, resp)
        more == t.k < Len(Providers(r))
    IN IF res # NoLoc
       THEN IF UpdateCacheThrows(r, q1)
            THEN IF ~ResolveCatches(r) THEN Outcome(Returned(t, NoLoc), c, {}, 0, TRUE)
                 ELSE IF r = "cache_v5" /\ more
                 THEN QueryProvider(r, c, h, t, t.k + 1, t.target)
                 ELSE Outcome(Returned(t, NoLoc), c, {}, 0, FALSE)
            ELSE LET c1 == updateCache(c, r, h, res, q1)
                     c2 == IF IsRobust(r) /\ t.target # h
                           THEN updateCache(c1, r, t.target, res, q2) ELSE c1
                 IN Cleared(Outcome(Returned(t, res), c2, {}, 0, FALSE),
                            q1 \/ (IsRobust(r) /\ t.target # h /\ q2))
       ELSE IF more
       THEN IF IsRobust(r)
            THEN Outcome([t EXCEPT !.pc = "wait"], c, {}, 0, FALSE)
            ELSE QueryProvider(r, c, h, t, t.k + 1, t.target)
       ELSE Outcome(Returned(t, NoLoc), c, {}, 0, FALSE)

\* the delay before the next provider (robust revisions) has elapsed
WaitElapsed(r, c, h, t) == QueryProvider(r, c, h, t, t.k + 1, t.target)

\* ------------------------------------------------------------------ task steps

Running == pc \in {"running", "direct"}

\* installs the outcome of one synchronous stretch of the call for host h;
\* batchResolve's callback stores a non-null result under the host
Apply(h, o) ==
    /\ task' = Put(task, h, o.t)
    /\ cache' = o.c
    /\ storage' = IF o.cleared /\ storage = "full" THEN "ok" ELSE storage
    /\ provLog' = provLog \cup o.log
    /\ netCalls' = IF pc = "direct" THEN netCalls + o.n ELSE netCalls
    /\ results' = IF pc = "running" /\ ~o.threw /\ o.t.pc = "done" /\ o.t.result # NoLoc
                  THEN Put(results, h, o.t.result)
                  ELSE results
    /\ raised' = (raised \/ o.threw)
    /\ pc' = IF o.threw THEN "raised" ELSE pc

\* the jitter timer of full_v2's batchResolve fires: resolveLocation is called
JitterElapsed(h) ==
    /\ Running /\ TaskOf(h).pc = "jitter"
    /\ invoked' = Put(invoked, h, Count(invoked, h) + 1)
    /\ Apply(h, StartResolve(rev, cache, h))
    /\ UNCHANGED <<lineVars, rev, input, hosts, gi, doc, delays, callVars>>

DnsDone(h) ==
    /\ Running /\ TaskOf(h).pc \in {"dns", "dns2"}
    /\ \E outcome \in DnsOutcomes, quota \in QuotaChoices(storage) :
          /\ Apply(h, DnsResponse(rev, cache, h, TaskOf(h), outcome, quota))
          /\ hist' = IF pc = "direct" THEN [hist EXCEPT !.dns = outcome] ELSE hist
    /\ UNCHANGED <<lineVars, rev, input, hosts, gi, doc, delays, invoked, calls>>

ProvDone(h) ==
    /\ Running /\ TaskOf(h).pc = "prov"
    /\ \E resp \in ResponsesAt(pc), q1 \in QuotaChoices(storage) :
       \E q2 \in QuotaChoices(StorageAfter(rev, storage, q1)) :
          /\ Apply(h, ProviderResponse(rev, cache, h, TaskOf(h), resp, q1, q2))
          /\ hist' = LET res == ProviderResult(Providers(rev)[TaskOf(h).k],
                                                TaskOf(h).target, resp)
                     IN IF pc # "direct" THEN hist
                        ELSE IF res = NoLoc THEN [hist EXCEPT !.misses = @ + 1]
                        ELSE [hist EXCEPT !.got = res, !.refused = @ \/ q1]
    /\ UNCHANGED <<lineVars, rev, input, hosts, gi, doc, delays, invoked, calls>>

WaitDone(h) ==
    /\ Running /\ TaskOf(h).pc = "wait"
    /\ Apply(h, WaitElapsed(rev, cache, h, TaskOf(h)))
    /\ UNCHANGED <<lineVars, rev, input, hosts, gi, doc, delays, invoked, callVars>>

\* ------------------------------------------------------------------ host extraction

Null == "<null>"

\* the host an SSR main part starts with
SsrHostOf(main) == IF main = "host:port:proto:method:obfs:pw" THEN OriginHost ELSE main

getHostFromVmess(l) ==
    LET jsonStr == safeB64Decode([enc |-> l.enc, text |-> l.text])
    IN IF jsonStr = EmptyText \/ jsonStr.kind # "obj" THEN Null
       ELSE IF jsonStr.obj.add \notin {Absent, ""} THEN jsonStr.obj.add
       ELSE Null

getHostFromSSR(l) ==
    LET decoded == safeBase64UrlDecode([enc |-> l.enc, text |-> l.text])
    IN IF decoded = EmptyText THEN "" ELSE SsrHostOf(decoded.main)

getHostFromStandardUrl(l) ==
    LET original == LegacyOriginalLink(l)
    IN IF l.form = "legacy" /\ original # l THEN original.hostname
       ELSE IF UrlThrows(l) THEN Null
       ELSE IF UrlParse(l).hostname = "" THEN Null
       ELSE UrlParse(l).hostname

extractHost(l) ==
    IF l.scheme = "vmess" THEN getHostFromVmess(l)
    ELSE IF l.scheme = "ssr" THEN getHostFromSSR(l)
    ELSE IF l.scheme \in {"vless", "trojan", "ss"} THEN getHostFromStandardUrl(l)
    ELSE Null

\* ------------------------------------------------------------------ batchResolve

\* [...new Set(list)]: the distinct elements in order of first occurrence
RECURSIVE Dedupe(_)
Dedupe(sq) ==
    IF sq = <<>> THEN <<>>
    ELSE LET front == Dedupe(SubSeq(sq, 1, Len(sq) - 1))
             last == sq[Len(sq)]
         IN IF \E i \in 1 .. Len(front) : front[i] = last THEN front
            ELSE Append(front, last)

SelectKept(r, sq) == SelectSeq(sq, LAMBDA h : BatchKeeps(r, h))

\* variant: the filtered list without new Set(...)
UniqueHostsRepeated(r, hs) == SelectKept(r, hs)
\* uniqueHosts of batchResolve
UniqueHosts(r, hs) == Dedupe(SelectKept(r, hs))

\* the hosts processConfigs hands to batchResolve
ExtractedHosts(lines) ==
    SelectSeq([i \in 1 .. Len(lines) |-> extractHost(lines[i])], LAMBDA h : h # Null)

\* uniqueHosts.slice(i, i + size), as a set of hosts
Group(r, hs, i) ==
    {hs[j] : j \in {n \in 1 .. Len(hs) : n >= i /\ n < i + GroupSize(r)}}

MoreGroups(r, hs, i) == i + GroupSize(r) <= Len(hs)

\* whether batchResolve waits after the group that starts at i: full_v2 after
\* every group, robust_v4 after every host (800 ms or 20 ms), the others only
\* between groups
DelaysAfter(r, hs, i) ==
    IF r \in {"full_v2", "robust_v4"} THEN TRUE ELSE MoreGroups(r, hs, i)

\* variant: the lookup uses the address the CDN rule puts into the line
LineLocationOfOutput(l, map) ==
    LET host == extractHost(l)
    IN IF host \notin {Null, ""} THEN Get(map, "1.2.3.4") ELSE NoLoc

\* the location processConfigs looks up for a line
LineLocation(l, map) ==
    LET host == extractHost(l)
    IN IF host \notin {Null, ""} THEN Get(map, host) ELSE NoLoc

\* variant: the handlers are given the 1-based position of the line
DocumentOneBased(lines, opts, map) ==
    safeB64Encode([kind |-> "doc",
                   lines |-> [i \in 1 .. Len(lines) |->
                                ProcessLine(lines[i], opts, i, LineLocation(lines[i], map))]])

\* the returned document: safeB64Encode(processedLines.join('\n'))
Document(lines, opts, map) ==
    safeB64Encode([kind |-> "doc",
                   lines |-> [i \in 1 .. Len(lines) |->
                                ProcessLine(lines[i], opts, i - 1, LineLocation(lines[i], map))]])

NoDoc == [enc |-> "none", text |-> [kind |-> "doc", lines |-> <<>>]]

\* processConfigs up to its first await
Begin ==
    /\ pc = "init"
    /\ IF options.addLocationFlag /\ UniqueHosts(rev, ExtractedHosts(input)) # <<>>
       THEN /\ hosts' = UniqueHosts(rev, ExtractedHosts(input))
            /\ gi' = 1
            /\ pc' = "group"
       ELSE /\ pc' = "lines"
            /\ UNCHANGED <<hosts, gi>>
    /\ UNCHANGED <<lineVars, resolverVars, input, results, doc, raised, delays, callVars>>

\* batch.map(async host => ...): every callback of the group runs up to its
\* first await, in full_v2 the jitter timer, else inside resolveLocation
StartGroup ==
    /\ pc = "group"
    /\ LET g == Group(rev, hosts, gi)
           o == [h \in g |-> StartResolve(rev, cache, h)]
       IN IF rev = "full_v2"
          THEN /\ task' = [h \in DOMAIN task \cup g |->
                             IF h \in g THEN [IdleTask EXCEPT !.pc = "jitter"] ELSE task[h]]
               /\ UNCHANGED <<invoked, provLog, results>>
          ELSE LET hit == {h \in g : o[h].t.pc = "done" /\ o[h].t.result # NoLoc}
               IN /\ task' = [h \in DOMAIN task \cup g |-> IF h \in g THEN o[h].t ELSE task[h]]
                  /\ invoked' = [h \in DOMAIN invoked \cup g |->
                                    IF h \in g THEN Count(invoked, h) + 1 ELSE invoked[h]]
                  /\ provLog' = provLog \cup UNION {o[h].log : h \in g}
                  /\ results' = [h \in DOMAIN results \cup hit |->
                                    IF h \in hit THEN o[h].t.result ELSE results[h]]
    /\ pc' = "running"
    /\ UNCHANGED <<lineVars, rev, cache, storage, netCalls, input, hosts, gi, doc, raised, delays, callVars>>

\* variant: Promise.race in place of Promise.all
GroupDoneFirst ==
    /\ pc = "running"
    /\ \E h \in Group(rev, hosts, gi) : TaskOf(h).pc = "done"
    /\ pc' = IF DelaysAfter(rev, hosts, gi) THEN "delay" ELSE "lines"
    /\ UNCHANGED <<lineVars, resolverVars, input, hosts, gi, results, doc, raised, delays, callVars>>

\* Promise.all of the group has settled
GroupDone ==
    /\ pc = "running"
    /\ \A h \in Group(rev, hosts, gi) : TaskOf(h).pc = "done"
    /\ pc' = IF DelaysAfter(rev, hosts, gi) THEN "delay" ELSE "lines"
    /\ UNCHANGED <<lineVars, resolverVars, input, hosts, gi, results, doc, raised, delays, callVars>>

\* the delay after the group has elapsed
DelayElapsed ==
    /\ pc = "delay"
    /\ delays' = delays + 1
    /\ IF MoreGroups(rev, hosts, gi)
       THEN gi' = gi + GroupSize(rev) /\ pc' = "group"
       ELSE pc' = "lines" /\ UNCHANGED gi
    /\ UNCHANGED <<lineVars, resolverVars, input, hosts, results, doc, raised, callVars>>

\* the synchronous rest of processConfigs
ProcessLines ==
    /\ pc = "lines"
    /\ doc' = Document(input, options, results)
    /\ pc' = "done"
    /\ UNCHANGED <<lineVars, resolverVars, input, hosts, gi, results, raised, delays, callVars>>

\* ------------------------------------------------------------------ Spec: processConfigs

\* model bound: the longest input, in lines
MaxLines == 4

HostLine(h) ==
    UriLine("vless", "uri", "none", h,
            Query("ws", Absent, Absent, Absent, Absent, "tls"), OldAlias, FALSE)

BrokenVmess == VmessLine("bad", EmptyText)
PrivateHost == "10.0.0.1"

\* the domains of the model behave alike, so an input names them in order of
\* first use: a line uses a domain already used, the next unused one, the
\* private address, or is a vmess:// line that does not decode
DomainsUsed(sq) == Cardinality({i \in 1 .. Len(Domains) : \E j \in 1 .. Len(sq) : sq[j] = HostLine(Domains[i])})

NextLines(sq) ==
    {HostLine(Domains[i]) : i \in 1 .. (DomainsUsed(sq) + 1)}
        \cup {HostLine(PrivateHost), BrokenVmess}

RECURSIVE InputsOfLength(_)
InputsOfLength(n) ==
    IF n = 0 THEN {<<>>}
    ELSE UNION {{Append(sq, l) : l \in NextLines(sq)} : sq \in InputsOfLength(n - 1)}

BatchInputs == UNION {InputsOfLength(n) : n \in 1 .. MaxLines}

BatchOptions ==
    {o \in OptionSet :
        /\ o.enableCDNIP /\ o.customCDN = "1.2.3.4"
        /\ ~o.enableMux /\ ~o.enableFragment /\ ~o.allowInsecure /\ ~o.enableALPN}

NoHist == [cache0 |-> EmptyCache, misses |-> 0, firstResult |-> NoLoc,
           firstNet |-> 0, firstStored |-> FALSE, firstMisses |-> 0, hung |-> FALSE,
           got |-> NoLoc, refused |-> FALSE, dns |-> ""]

InitResolver ==
    /\ rev \in Revs
    /\ cache = EmptyCache
    /\ task = [h \in {} |-> IdleTask]
    /\ invoked = [h \in {} |-> 0]
    /\ provLog = {}
    /\ netCalls = 0
    /\ results = EmptyCache

IdleLine ==
    /\ line = OtherLine
    /\ index = 0
    /\ loc = NoLoc
    /\ out = Pending

Init ==
    /\ InitResolver
    /\ storage \in {"ok", "full"}
    /\ IdleLine
    /\ options \in BatchOptions
    /\ input \in BatchInputs
    /\ pc = "init"
    /\ hosts = <<>>
    /\ gi = 0
    /\ doc = NoDoc
    /\ raised = FALSE
    /\ delays = 0
    /\ calls = 0
    /\ hist = NoHist

Next ==
    \/ Begin
    \/ StartGroup
    \/ \E h \in AllHosts : JitterElapsed(h)
    \/ \E h \in AllHosts : DnsDone(h)
    \/ \E h \in AllHosts : ProvDone(h)
    \/ \E h \in AllHosts : WaitDone(h)
    \/ GroupDone
    \/ DelayElapsed
    \/ ProcessLines

Spec == Init /\ [][Next]_vars

\* the runs in which localStorage accepts every write
InitWritable == Init /\ storage = "ok"

SpecWritable == InitWritable /\ [][Next]_vars

\* ------------------------------------------------------------------ inputs

VmessObjects ==
    {VmessObj(OriginHost, net, tls, host, sni) :
        net \in {Absent, "tcp", "ws", "grpc"}, tls \in {"", "tls", "reality"},
        host \in {Absent, "", "h.example"}, sni \in {Absent, "", "s.example"}}

VmessLines ==
    {VmessLine("bad", EmptyText), VmessLine("std", EmptyText)}
    \cup {VmessLine(enc, JsonText(k, FALSE, NoObj)) :
            enc \in {"std", "url"}, k \in {"invalid", "null", "prim", "arr"}}
    \cup {VmessLine(e[1], JsonText("obj", e[2], o)) :
            e \in {<<"std", TRUE>>, <<"url", FALSE>>}, o \in VmessObjects}

SsrLines ==
    {SsrLine("bad", EmptyText)}
    \cup {SsrLine(enc, SsrText(main, remarks)) :
            enc \in {"std", "url"},
            main \in {"host:port:proto:method:obfs:pw", "junk"},
            remarks \in {NoRemarks, safeBase64UrlEncode(OldAlias)}}

Queries ==
    {Query(type, sm[1], sm[2], host, sni, security) :
        type \in {Absent, "tcp", "ws", "grpc"},
        sm \in {<<Absent, Absent>>, <<"svc", Absent>>, <<"", Absent>>, <<Absent, "grpc">>},
        host \in {Absent, "", "h.example"}, sni \in {Absent, "s.example"},
        security \in {Absent, "none", "tls", "reality"}}

UriLines ==
    {UriLine("vless", "uri", "none", OriginHost, q, OldAlias, FALSE) : q \in Queries}
    \cup {UriLine(sch, "uri", "none", OriginHost, q, OldAlias, n) :
            sch \in {"trojan", "ss"}, n \in BOOLEAN,
            q \in {NoQuery, Query("ws", Absent, Absent, Absent, Absent, "tls")}}
    \cup {UriLine("ss", "legacy", enc, OriginHost, NoQuery, OldAlias, FALSE) :
            enc \in {"std", "url", "bad"}}
    \cup {UriLine(sch, "broken", "none", OriginHost, NoQuery, OldAlias, FALSE) :
            sch \in {"vless", "trojan", "ss"}}

AllLines == VmessLines \cup SsrLines \cup UriLines \cup {OtherLine}

\* the location processConfigs hands to a handler: undefined when the switch
\* is off or the host did not resolve
LineLocations(opts) ==
    IF opts.addLocationFlag THEN {NoLoc, LocUS, LocNoCountry} ELSE {NoLoc}

\* ------------------------------------------------------------------ SpecLine

\* the resolver and the orchestrator stay idle while single lines are handled
LineIdleRest ==
    /\ InitResolver
    /\ storage = "ok"
    /\ rev = "full_v2"
    /\ input = <<>>
    /\ pc = "line"
    /\ hosts = <<>>
    /\ gi = 0
    /\ doc = NoDoc
    /\ raised = FALSE
    /\ delays = 0
    /\ calls = 0
    /\ hist = NoHist

InitLine ==
    /\ LineIdleRest
    /\ line \in AllLines
    /\ options \in OptionSet
    /\ index \in 0 .. (MaxIndex - 1)
    /\ loc \in LineLocations(options)
    /\ out = Pending

DoVmess ==
    /\ out = Pending
    /\ line.scheme = "vmess"
    /\ out' = processVmess(line, options, index, loc)
    /\ UNCHANGED <<line, options, index, loc, resolverVars, batchVars, callVars>>

DoSSR ==
    /\ out = Pending
    /\ line.scheme = "ssr"
    /\ out' = processSSR(line, options, index, loc)
    /\ UNCHANGED <<line, options, index, loc, resolverVars, batchVars, callVars>>

DoUrlBased ==
    /\ out = Pending
    /\ line.scheme \in {"vless", "trojan", "ss"}
    /\ out' = processUrlBased(line, options, index, loc)
    /\ UNCHANGED <<line, options, index, loc, resolverVars, batchVars, callVars>>

DoOther ==
    /\ out = Pending
    /\ line.scheme \notin {"vmess", "ssr", "vless", "trojan", "ss"}
    /\ out' = ProcessLine(line, options, index, loc)
    /\ UNCHANGED <<line, options, index, loc, resolverVars, batchVars, callVars>>

NextLine == DoVmess \/ DoSSR \/ DoUrlBased \/ DoOther

SpecLine == InitLine /\ [][NextLine]_vars

\* ------------------------------------------------------------------ SpecResolve

\* model bound: resolveLocation calls made in succession for one host
MaxCalls == 2

\* the hosts resolveLocation is called with: a domain, public IPv4 and IPv6
\* literals, a private address, localhost, a two-character host
DirectHosts == {Domains[1], "8.8.8.8", "2001:db8::1", PrivateHost, "localhost", "ab"}

\* a cache left by an earlier run: an entry under an address DNS answers with
WarmCache == Put(EmptyCache, CnameTarget, LocDE)

InitResolve ==
    /\ rev \in Revs
    /\ cache \in {EmptyCache, WarmCache}
    /\ storage \in {"ok", "flaky"}
    /\ hosts \in {<<h>> : h \in DirectHosts}
    /\ task = [h \in {} |-> IdleTask]
    /\ invoked = [h \in {} |-> 0]
    /\ provLog = {}
    /\ netCalls = 0
    /\ results = EmptyCache
    /\ IdleLine
    /\ options \in {o \in BatchOptions : o.addLocationFlag}
    /\ input = <<>>
    /\ pc = "direct"
    /\ gi = 0
    /\ doc = NoDoc
    /\ raised = FALSE
    /\ delays = 0
    /\ calls = 0
    /\ hist = NoHist

\* await resolveLocation(host), once the previous call has returned
CallResolve ==
    /\ pc = "direct"
    /\ calls < MaxCalls
    /\ LET h == hosts[1]
           o == StartResolve(rev, cache, h)
       IN /\ TaskOf(h).pc \in {"idle", "done"}
          /\ task' = Put(task, h, o.t)
          /\ cache' = o.c
          /\ provLog' = provLog \cup o.log
          /\ netCalls' = o.n
          /\ invoked' = Put(invoked, h, Count(invoked, h) + 1)
          /\ hist' = IF calls = 1
                     THEN [cache0 |-> cache, misses |-> 0,
                           firstResult |-> TaskOf(h).result, firstNet |-> netCalls,
                           firstStored |-> (Get(cache, h) # NoLoc),
                           firstMisses |-> hist.misses, hung |-> hist.hung,
                           got |-> NoLoc, refused |-> FALSE, dns |-> ""]
                     ELSE [hist EXCEPT !.cache0 = cache, !.misses = 0,
                                       !.got = NoLoc, !.refused = FALSE, !.dns = ""]
    /\ calls' = calls + 1
    /\ UNCHANGED <<lineVars, rev, storage, batchVars>>

NextResolve ==
    \/ CallResolve
    \/ DnsDone(hosts[1])
    \/ ProvDone(hosts[1])
    \/ WaitDone(hosts[1])

SpecResolve == InitResolve /\ [][NextResolve]_vars

\* ------------------------------------------------------------------ SpecSubscription

\* a subscription text as fetched: a Base64 payload (enc "bad": text that no
\* alphabet decodes, i.e. plaintext) and whether blanks surround it
Content(enc, text, padded) ==
    [scheme |-> "subscription", enc |-> enc, text |-> text, padded |-> padded]

\* variant: the decoded text is returned whatever it is
parseSubscriptionDecodedOnly(content) ==
    safeB64Decode([enc |-> content.enc, text |-> content.text])

\* parseSubscription (services/v2rayService.ts:41-44): content.trim() is
\* decoded; an empty result gives the content back as it came
parseSubscription(content) ==
    LET decoded == safeB64Decode([enc |-> content.enc, text |-> content.text])
    IN IF decoded # EmptyText THEN decoded ELSE content

\* the documents a subscription carries: up to two lines
SubscriptionTexts ==
    {EmptyText}
    \cup {[kind |-> "doc", lines |-> sq] :
            sq \in UNION {[1 .. n -> {OtherLine, BrokenVmess, HostLine(OriginHost)}] :
                            n \in 1 .. 2}}

InitSubscription ==
    /\ LineIdleRest
    /\ line \in {Content(enc, text, padded) :
                    enc \in {"std", "url", "bad"}, text \in SubscriptionTexts,
                    padded \in BOOLEAN}
    /\ options \in {o \in BatchOptions : o.addLocationFlag}
    /\ index = 0
    /\ loc = NoLoc
    /\ out = Pending

DoParseSubscription ==
    /\ out = Pending
    /\ line.scheme = "subscription"
    /\ out' = parseSubscription(line)
    /\ UNCHANGED <<line, options, index, loc, resolverVars, batchVars, callVars>>

SpecSubscription == InitSubscription /\ [][DoParseSubscription]_vars

\* ------------------------------------------------------------------ SpecAlias

\* records a provider adapter can build: getFlagEmoji('') is '' when the
\* country code is missing, country is '' when the provider names none
LocNoFlag == [flag |-> "", country |-> "Germany", city |-> ""]
LocFlagOnly == [flag |-> "US-flag", country |-> "", city |-> "Dallas"]

\* customBaseName as typed into the form: empty, padded, blank
BaseNames == {"", " Mine ", "  "}

\* one well-formed line of each handler, every location and base name
InitAlias ==
    /\ LineIdleRest
    /\ line \in {VmessLine("std", JsonText("obj", TRUE,
                                            VmessObj(OriginHost, "ws", "tls", Absent, Absent))),
                  SsrLine("url", SsrText("host:port:proto:method:obfs:pw", NoRemarks)),
                  HostLine(OriginHost),
                  OtherLine}
    /\ options \in {[o EXCEPT !.customBaseName = b] :
                       o \in {x \in BatchOptions : x.addLocationFlag}, b \in BaseNames}
    /\ index \in 0 .. (MaxIndex - 1)
    /\ loc \in {NoLoc, LocUS, LocDE, LocNoCountry, LocNoFlag, LocFlagOnly}
    /\ out = Pending

SpecAlias == InitAlias /\ [][NextLine]_vars

\* ------------------------------------------------------------------ SpecHang

\* whether the fetch of a step carries an AbortController with a timer
\* (services/geoIpService.ts:45 has none, :57-61 has one;
\* unnamed/part_001:51-53,66-68,91-93 have one; types.ts:105-174 and
\* unnamed/part_001:188-261 have none)
HasTimeout(r, step) ==
    IF r = "full_v2" THEN step = "prov"
    ELSE r = "cache_v5"

HungSteps == {"dns-hung", "dns2-hung", "prov-hung"}
HungAt(step) ==
    IF step = "dns" THEN "dns-hung" ELSE IF step = "dns2" THEN "dns2-hung" ELSE "prov-hung"
StepOf(hung) ==
    IF hung = "dns-hung" THEN "dns" ELSE IF hung = "dns2-hung" THEN "dns2" ELSE "prov"

\* the server never answers the request host h is waiting for; this happens
\* to one request of the run
Hang(h) ==
    /\ pc = "running" /\ ~hist.hung
    /\ TaskOf(h).pc \in {"dns", "dns2", "prov"}
    /\ task' = Put(task, h, [TaskOf(h) EXCEPT !.pc = HungAt(@)])
    /\ hist' = [hist EXCEPT !.hung = TRUE]
    /\ UNCHANGED <<lineVars, rev, cache, storage, invoked, provLog, netCalls, batchVars, calls>>

\* the timer of the AbortController fires: the fetch rejects and the catch
\* block treats it like a failed request
TimeoutFires(h) ==
    /\ pc = "running" /\ TaskOf(h).pc \in HungSteps
    /\ HasTimeout(rev, StepOf(TaskOf(h).pc))
    /\ LET t == [TaskOf(h) EXCEPT !.pc = StepOf(@)]
       IN Apply(h, IF t.pc = "prov"
                   THEN ProviderResponse(rev, cache, h, t, "fail", FALSE, FALSE)
                   ELSE DnsResponse(rev, cache, h, t, "fail", FALSE))
    /\ UNCHANGED <<lineVars, rev, input, hosts, gi, doc, delays, invoked, callVars>>

\* runs over one or two lines, each with a domain host
HangInputs == {sq \in InputsOfLength(1) \cup InputsOfLength(2) :
                 \A i \in 1 .. Len(sq) : extractHost(sq[i]) \in DomainSet}

InitHang ==
    /\ InitResolver
    /\ storage = "ok"
    /\ IdleLine
    /\ options \in {o \in BatchOptions : o.addLocationFlag}
    /\ input \in HangInputs
    /\ pc = "init"
    /\ hosts = <<>>
    /\ gi = 0
    /\ doc = NoDoc
    /\ raised = FALSE
    /\ delays = 0
    /\ calls = 0
    /\ hist = NoHist

\* what the run does by itself: timers fire, answers that are on their way
\* arrive, the orchestrator goes on
Progress ==
    \/ Next
    \/ \E h \in DomainSet : TimeoutFires(h)

NextHang ==
    \/ Progress
    \/ \E h \in DomainSet : Hang(h)

SpecHang == InitHang /\ [][NextHang]_vars /\ WF_vars(Progress)

\* ------------------------------------------------------------------ SpecExport

\* The revisions of the service with a structured (JSON) export:
\*   outbound      unnamed/part_002:98-442          (convertLinkToXrayOutbound)
\*   full_bare     unnamed/part_003:97-566          (buildFullXrayConfig)
\*   full_remarks  services/geoIpService.ts:199-710 (buildFullXrayConfig)
ExportRevs == {"outbound", "full_bare", "full_remarks"}

\* the null the builders return for a line they skip
NoExport == [kind |-> "null"]

\* the CDN override of the builders: customCDN is only tested for truthiness
ExportAddress(own, net, opts) ==
    IF opts.enableCDNIP /\ opts.customCDN # "" /\ net \in {"ws", "grpc"}
    THEN opts.customCDN
    ELSE own

\* params.get('type') || params.get('mode') || 'tcp'
ExportNet(q) ==
    IF q.type \notin {Absent, ""} THEN q.type
    ELSE IF q.mode \notin {Absent, ""} THEN q.mode
    ELSE "tcp"

\* x || 'none'
ExportSecurity(x) == IF x \in {Absent, ""} THEN "none" ELSE x

\* variant: the reference is set whenever fragmenting is enabled
ExportDialerProxyAlways(r, opts, security) ==
    IF r # "outbound" /\ opts.enableFragment THEN "fragment" ELSE Absent

\* streamSettings.sockopt.dialerProxy of the main outbound: the full
\* configurations refer to the "fragment" outbound for tls and reality links;
\* the outbound revision puts the fragment settings into sockopt itself
ExportDialerProxy(r, opts, security) ==
    IF r # "outbound" /\ opts.enableFragment /\ security \in {"tls", "reality"}
    THEN "fragment"
    ELSE Absent

\* the outbound tagged "fragment" of the object, Absent when there is none:
\* full_bare pushes it when fragmenting is enabled, full_remarks always, with
\* settings.fragment undefined when fragmenting is off
ExportFragmentOutbound(r, opts) ==
    IF r = "outbound" \/ (r = "full_bare" /\ ~opts.enableFragment) THEN Absent
    ELSE IF opts.enableFragment
    THEN [length |-> opts.fragmentLength, interval |-> opts.fragmentInterval]
    ELSE [length |-> Absent, interval |-> Absent]

\* convertLinkToXrayOutbound / buildFullXrayConfig: the object exported for a
\* link, followed by its protocol, server address, security and fragment
\* wiring; a link of another scheme and a link whose parsing throws give null
buildFullXrayConfig(r, link, opts) ==
    IF link.scheme = "vmess"
    THEN LET jsonStr == safeB64Decode([enc |-> link.enc, text |-> link.text])
         IN IF jsonStr.kind \in {"empty", "invalid", "null"} THEN NoExport
            ELSE LET security == ExportSecurity(jsonStr.obj.tls)
                 IN [kind |-> "xray", protocol |-> "vmess",
                     address |-> ExportAddress(jsonStr.obj.add, jsonStr.obj.net, opts),
                     security |-> security,
                     dialerProxy |-> ExportDialerProxy(r, opts, security),
                     fragment |-> ExportFragmentOutbound(r, opts)]
    ELSE IF link.scheme \in {"vless", "trojan"}
    THEN IF UrlThrows(link) THEN NoExport
         ELSE LET url == UrlParse(link)
                  security == ExportSecurity(url.q.security)
              IN [kind |-> "xray", protocol |-> link.scheme,
                  address |-> ExportAddress(url.hostname, ExportNet(url.q), opts),
                  security |-> security,
                  dialerProxy |-> ExportDialerProxy(r, opts, security),
                  fragment |-> ExportFragmentOutbound(r, opts)]
    ELSE NoExport

\* lines.map(build).filter(o => o !== null).map(o => JSON.stringify(o)).join('\n')
JsonLines(r, lines, opts) ==
    LET built == [i \in 1 .. Len(lines) |-> buildFullXrayConfig(r, lines[i], opts)]
        Kept(o) == o # NoExport
        objects == SelectSeq(built, Kept)
    IN [kind |-> "doc",
        lines |-> [i \in 1 .. Len(objects) |-> JsonText("obj", TRUE, objects[i])]]

\* what processConfigs returns with the location switch off: in JSON mode the
\* joined objects, which full_bare and full_remarks wrap in Base64 and
\* outbound returns as they are; otherwise the Base64 of the processed lines
ExportDocument(r, lines, opts) ==
    IF opts.outputFormat = "json"
    THEN IF r = "outbound"
         THEN JsonLines(r, lines, opts)
         ELSE safeB64Encode(JsonLines(r, lines, opts))
    ELSE Document(lines, opts, EmptyCache)

\* the options carry the outputFormat and fragment members of the export
\* revisions; the input is one or two lines, among them lines the builders skip
InitExport ==
    LET ExportOptions ==
            {o @@ [outputFormat |-> f, fragmentLength |-> n, fragmentInterval |-> "10-20"] :
                o \in {b \in OptionSet :
                          /\ b.enableCDNIP /\ b.customCDN = "1.2.3.4" /\ ~b.addLocationFlag
                          /\ ~b.enableMux /\ ~b.allowInsecure /\ ~b.enableALPN},
                f \in {"base64", "json"}, n \in {"10-20", "100-200"}}
        ExportLines ==
            {HostLine(OriginHost), BrokenVmess, OtherLine,
             VmessLine("std", JsonText("obj", TRUE,
                                       VmessObj(OriginHost, "ws", "tls", Absent, Absent))),
             UriLine("trojan", "uri", "none", OriginHost, NoQuery, OldAlias, TRUE),
             UriLine("vless", "uri", "none", OriginHost,
                     Query("tcp", Absent, Absent, Absent, Absent, "reality"), OldAlias, TRUE),
             UriLine("ss", "uri", "none", OriginHost, NoQuery, OldAlias, TRUE),
             UriLine("vless", "broken", "none", OriginHost, NoQuery, OldAlias, FALSE)}
    IN /\ rev \in ExportRevs
       /\ cache = EmptyCache
       /\ task = [h \in {} |-> IdleTask]
       /\ invoked = [h \in {} |-> 0]
       /\ provLog = {}
       /\ netCalls = 0
       /\ results = EmptyCache
       /\ storage = "ok"
       /\ IdleLine
       /\ options \in ExportOptions
       /\ input \in UNION {[1 .. n -> ExportLines] : n \in 1 .. 2}
       /\ pc = "export"
       /\ hosts = <<>>
       /\ gi = 0
       /\ doc = NoDoc
       /\ raised = FALSE
       /\ delays = 0
       /\ calls = 0
       /\ hist = NoHist

\* processConfigs(input, options) of an export revision, location switch off
DoExport ==
    /\ pc = "export"
    /\ doc' = ExportDocument(rev, input, options)
    /\ pc' = "done"
    /\ UNCHANGED <<lineVars, resolverVars, input, hosts, gi, results, raised, delays, callVars>>

SpecExport == InitExport /\ [][DoExport]_vars

\* ================================================================== claims
\* ------------------------------------------------------------------ SpecLine

Done == out # Pending

\* the address, host and SNI fields of a parsed link
IsVmessObject(l) ==
    l.scheme = "vmess" /\ l.enc # "bad" /\ l.text.kind = "obj"
IsParsedUri(l) ==
    /\ l.scheme \in {"vless", "trojan", "ss"}
    /\ l.form = "uri" \/ (l.form = "legacy" /\ l.enc # "bad")
AddressOf(l) == IF l.scheme = "vmess" THEN l.text.obj.add ELSE l.hostname
HostFieldOf(l) == IF l.scheme = "vmess" THEN l.text.obj.host ELSE l.q.host
SniFieldOf(l) == IF l.scheme = "vmess" THEN l.text.obj.sni ELSE l.q.sni

CdnRequested == options.enableCDNIP /\ options.customCDN # ""

\* C1: a vmess:// line whose payload is not decodable Base64, or decodes to
\* text that is not JSON, is emitted exactly as it was received, under every
\* setting of the options.
C1_Undecodable(l) ==
    l.scheme = "vmess" /\ (l.enc = "bad" \/ l.text.kind \in {"empty", "invalid"})

C1_InvalidVmessPassthrough ==
    (Done /\ C1_Undecodable(line)) => out = line

C1_Witness ==
    /\ Done /\ line.scheme = "vmess" /\ line.enc = "url"
    /\ line.text.kind = "invalid" /\ out = line
    /\ options.enableMux /\ options.enableALPN /\ CdnRequested

\* C2: an ssr://, vless://, trojan:// or ss:// line whose payload fails to
\* parse (an SSR payload that does not decode to a host:port:... blob, a URI
\* the URL parser rejects) is emitted as the original line, never as a
\* rewritten or newly built link.
C2_ParseFails(l) ==
    \/ l.scheme = "ssr" /\ (l.enc = "bad" \/ l.text.main # "host:port:proto:method:obfs:pw")
    \/ l.scheme \in {"vless", "trojan", "ss"} /\ l.form = "broken"

C2_ParseFailurePassthrough ==
    (Done /\ C2_ParseFails(line)) => out = line

\* C4: a link whose transport is tcp (VMess net = tcp, URI type = tcp or no
\* type parameter), whatever else it carries, keeps its address when CDN-IP
\* substitution is enabled with a non-empty customCDN.
C4_IsTcp(l) ==
    \/ IsVmessObject(l) /\ l.text.obj.net = "tcp"
    \/ IsParsedUri(l) /\ l.q.type \in {Absent, "tcp"}

C4_TcpAddressUnchanged ==
    (Done /\ CdnRequested /\ C4_IsTcp(line)) => AddressOf(out) = AddressOf(line)

\* C5: a websocket or gRPC link processed with CDN-IP substitution enabled and
\* a non-empty customCDN has address = customCDN; its host field is the
\* original address if it was empty or absent and its previous value
\* otherwise; and likewise its SNI field.
C5_IsWsOrGrpc(l) ==
    \/ IsVmessObject(l) /\ l.text.obj.net \in {"ws", "grpc"}
    \/ IsParsedUri(l) /\ l.q.type \in {"ws", "grpc"}

C5_Moved(before, original) == IF before \in {Absent, ""} THEN original ELSE before

C5_CdnSubstitution ==
    (Done /\ CdnRequested /\ C5_IsWsOrGrpc(line)) =>
        /\ AddressOf(out) = options.customCDN
        /\ HostFieldOf(out) = C5_Moved(HostFieldOf(line), AddressOf(line))
        /\ SniFieldOf(out) = C5_Moved(SniFieldOf(line), AddressOf(line))

\* ------------------------------------------------------------------ SpecAlias

\* the display name of a link
AliasOf(l) ==
    IF l.scheme = "vmess" THEN l.text.obj.ps
    ELSE IF l.scheme = "ssr" THEN l.text.remarks.text
    ELSE l.hash

Present(component) == IF component \in {Absent, ""} THEN <<>> ELSE <<component>>

\* C15: the generated alias consists of the present, non-empty components
\* flag, country, base label (customBaseName trimmed, 'VS' when that is
\* empty) and the 1-based index, in this order; an empty component in the
\* joined parts would show as a leading or doubled space.
C15_AliasComponents ==
    (Done /\ line # OtherLine) =>
        AliasOf(out) =
            [parts |-> Present(loc.flag) \o Present(loc.country)
                         \o <<IF Trim(options.customBaseName) = "" THEN "VS"
                              ELSE Trim(options.customBaseName)>>,
             num |-> index + 1]

\* C16: with addLocationFlag disabled, a processed link keeps the display name
\* it came with.
C16_HasAlias(l) ==
    IsVmessObject(l) \/ IsParsedUri(l) \/ (l.scheme = "ssr" /\ l.enc # "bad")

C16_NameKeptWhenSwitchOff ==
    (Done /\ ~options.addLocationFlag /\ C16_HasAlias(line)) =>
        AliasOf(out) = AliasOf(line)

\* C17: with enableALPN set, the ALPN of a link is the list h2,http/1.1 if
\* its security is tls, reality or xtls and is what it was otherwise; and
\* without the CDN rule the address and the SNI are what they were.
SecurityOf(l) == IF l.scheme = "vmess" THEN l.text.obj.tls ELSE l.q.security
AlpnOf(l) == IF l.scheme = "vmess" THEN l.text.obj.alpn ELSE l.q.alpn

C17_AlpnRule ==
    (Done /\ options.enableALPN /\ (IsVmessObject(line) \/ IsParsedUri(line))) =>
        /\ AlpnOf(out) = IF SecurityOf(line) \in {"tls", "reality", "xtls"}
                         THEN "h2,http/1.1" ELSE AlpnOf(line)
        /\ ~CdnRequested => /\ AddressOf(out) = AddressOf(line)
                            /\ SniFieldOf(out) = SniFieldOf(line)

\* C18: a well-formed link of a supported protocol, processed with every
\* transformation option off, comes out as a link of the same protocol with
\* the same address, port, identifier, transport, security and options.
C18_WellFormed(l) ==
    \/ IsVmessObject(l)
    \/ l.scheme = "ssr" /\ l.enc # "bad" /\ l.text.main = "host:port:proto:method:obfs:pw"
    \/ IsParsedUri(l)

C18_AllOff(o) ==
    /\ ~o.enableCDNIP /\ ~o.enableMux /\ ~o.enableFragment
    /\ ~o.allowInsecure /\ ~o.enableALPN

\* what a client reads from a link, the display name left out
C18_Parsed(l) ==
    IF l.scheme = "vmess" THEN [kind |-> "vmess", conf |-> [l.text.obj EXCEPT !.ps = OldAlias]]
    ELSE IF l.scheme = "ssr" THEN [kind |-> "ssr", main |-> l.text.main]
    ELSE [kind |-> l.scheme, user |-> l.user, hostname |-> l.hostname,
          port |-> l.port, q |-> l.q]

C19_PlaintextReturned ==
    (Done /\ line.scheme = "subscription" /\ line.enc = "bad") =>
        /\ out = line
        /\ out # EmptyText

C19_Witness ==
    /\ Done /\ line.scheme = "subscription" /\ line.enc = "bad"
    /\ line.padded /\ line.text # EmptyText /\ out = line

\* ------------------------------------------------------------------ Spec

\* the hosts of the input lines, and the location parts of a rewritten link
InputHosts == {extractHost(input[i]) : i \in 1 .. Len(input)} \ {Null, ""}
LocationPartsOf(l) == SubSeq(l.hash.parts, 1, Len(l.hash.parts) - 1)
Started(h) == TaskOf(h).pc # "idle"
GroupOf(j) == (j - 1) \div GroupSize(rev)

\* C3: whatever the DNS requests, the providers and the cache writes do, no
\* exception leaves processConfigs, the run can always take its next step
\* until it has returned, and the document it returns has one line for every
\* input line, with every host of the batch resolved or given up on.
C3_AlwaysCompletes ==
    /\ ~raised
    /\ pc # "done" => ENABLED Next
    /\ pc = "done" =>
          /\ doc.enc = "std"
          /\ Len(doc.text.lines) = Len(input)
          /\ \A j \in 1 .. Len(hosts) : TaskOf(hosts[j]).pc = "done"

C3_Witness ==
    /\ pc = "done" /\ storage = "full" /\ Len(doc.text.lines) >= 3
    /\ \E i \in 1 .. Len(input) : input[i] = BrokenVmess
    /\ \E h \in DOMAIN task : task[h].result = NoLoc /\ h \in provLog

PrivateHosts == {"127.0.0.1", "10.0.0.1", "192.168.1.1", "localhost"}

C9_PrivateNeverQueried ==
    /\ provLog \cap PrivateHosts = {}
    /\ pc = "done" =>
          \A i \in 1 .. Len(input) :
              extractHost(input[i]) \in PrivateHosts
              => LocationPartsOf(doc.text.lines[i]) = <<>>

C6_SecondCallFromCache == calls = 2 => netCalls = 0

\* C6: when the first call returned a record and the cache holds the entry for
\* the host when the second call is made, the second call issues no network
\* request and returns the record the first call returned.
C6_CachedSecondCall ==
    (calls = 2 /\ hist.firstResult # NoLoc /\ hist.firstStored) =>
        /\ netCalls = 0
        /\ TaskOf(hosts[1]).pc = "done"
        /\ TaskOf(hosts[1]).result = hist.firstResult

C6_Witness ==
    /\ calls = 2 /\ hist.firstResult # NoLoc /\ hist.firstStored
    /\ hist.firstNet >= 2 /\ netCalls = 0 /\ storage = "flaky"
    /\ TaskOf(hosts[1]).result = hist.firstResult

\* C7: a call in which every provider of the chain was queried and missed
\* returns NotFound and leaves the cache as it was at the head of the call,
\* and the call that follows it goes to the network again.
C7_FailureLeavesCache ==
    /\ (TaskOf(hosts[1]).pc = "done" /\ hist.misses = Len(Providers(rev))) =>
          /\ TaskOf(hosts[1]).result = NoLoc
          /\ cache = hist.cache0
    /\ (calls = 2 /\ hist.firstMisses = Len(Providers(rev))) =>
          /\ hist.firstResult = NoLoc
          /\ netCalls >= 1

C7_Witness ==
    /\ calls = 2 /\ rev = "robust_v5" /\ hist.firstMisses = 3
    /\ hist.firstResult = NoLoc /\ cache = WarmCache
    /\ TaskOf(hosts[1]).pc = "prov" /\ netCalls >= 1

\* C12: when every target handed to the providers was a literal IP, a record
\* a provider reports for another IP (LocSelf: the caller's own address) is
\* neither returned by resolveLocation nor written to the cache.
C12_MismatchIsMiss ==
    (\A target \in provLog : isIP(target)) =>
        /\ TaskOf(hosts[1]).result # LocSelf
        /\ \A k \in DOMAIN cache : cache[k] # LocSelf

\* C13: when the first call for a domain host got its record from a provider
\* that was queried with the address DNS resolved the host to, the cache holds
\* that record under the host and under the resolved address on return.
C13_BothKeysCached ==
    (/\ calls = 1 /\ hosts[1] \in DomainSet /\ AnswerIP \in provLog
     /\ TaskOf(hosts[1]).pc = "done" /\ TaskOf(hosts[1]).result # NoLoc)
    => /\ Get(cache, hosts[1]) = TaskOf(hosts[1]).result
       /\ Get(cache, AnswerIP) = TaskOf(hosts[1]).result

\* C14: when the store refuses the write of the record a provider returned,
\* the cache is cleared as a whole and the call still returns that record.
C14_WriteFailureClears ==
    (TaskOf(hosts[1]).pc = "done" /\ hist.got # NoLoc /\ hist.refused) =>
        /\ TaskOf(hosts[1]).result = hist.got
        /\ cache = EmptyCache

\* ------------------------------------------------------------------ SpecHang

\* C11: when one DNS or provider request of a run never responds, the run
\* still returns in the end: the request is ended by its timeout.
C11_EventuallyReturns == <>(pc = "done")

\* ------------------------------------------------------------------ SpecExport

\* C20: when the JSON output mode is selected, the document processConfigs
\* returns is the newline-joined sequence of exported objects as it is, with
\* no Base64 wrapper around it; in standard mode it is the Base64 encoding of
\* the newline-joined processed lines
C20_JsonDocumentUnwrapped ==
    (pc = "done" /\ rev \in ExportRevs) =>
        IF options.outputFormat = "json"
        THEN doc = JsonLines(rev, input, options)
        ELSE doc = safeB64Encode([kind |-> "doc",
                                  lines |-> [i \in 1 .. Len(input) |->
                                               ProcessLine(input[i], options, i - 1, NoLoc)]])

\* the objects of a JSON-mode document of the full-configuration revisions
C28_Objects ==
    IF pc = "done" /\ rev \in {"full_bare", "full_remarks"} /\ options.outputFormat = "json"
    THEN {doc.text.lines[i].obj : i \in 1 .. Len(doc.text.lines)}
    ELSE {}

\* C28: in every object of the full JSON export, when the socket options of
\* the main outbound refer to the dialer proxy "fragment", the object has an
\* outbound tagged "fragment" whose length and interval are the configured
\* ones; and the reference is there only with enableFragment set and a link
\* whose security is tls or reality
C28_FragmentWired ==
    \A o \in C28_Objects :
        o.dialerProxy = "fragment" =>
            /\ o.fragment = [length |-> options.fragmentLength,
                             interval |-> options.fragmentInterval]
            /\ options.enableFragment
            /\ o.security \in {"tls", "reality"}

C28_Witness ==
    /\ options.enableFragment /\ options.fragmentLength = "100-200"
    /\ \E o \in C28_Objects :
          /\ o.dialerProxy = "fragment" /\ o.security = "reality"
          /\ o.fragment = [length |-> "100-200", interval |-> "10-20"]
    /\ \E o \in C28_Objects : o.dialerProxy = Absent /\ o.security = "none"

\* ------------------------------------------------------------------ SpecLine, further claims

MuxOf(l) ==
    IF l.scheme = "vmess" THEN l.text.obj.mux
    ELSE IF l.scheme = "ssr" THEN 0
    ELSE IF l.q.mux = "true" THEN l.q.concurrency ELSE 0

C26_Parsed ==
    \/ IsVmessObject(line)
    \/ IsParsedUri(line)
    \/ line.scheme = "ssr" /\ line.enc # "bad"
                           /\ line.text.main = "host:port:proto:method:obfs:pw"

\* C26: with enableMux set, every link that was parsed, of any protocol,
\* comes out with the multiplex marker at the configured concurrency; with
\* enableMux off the marker of the link is left as it was
C26_MuxEverywhere ==
    (Done /\ C26_Parsed) =>
        IF options.enableMux
        THEN MuxOf(out) = options.muxConcurrency
        ELSE MuxOf(out) = 0

\* ------------------------------------------------------------------ SpecResolve, further claims

\* C22: within one resolveLocation call the providers are queried in their
\* fixed order, each at most once: provider k is in flight only after the
\* k-1 providers before it missed in this call, and none is in flight once a
\* provider has answered with a record
C22_ProvidersInOrder ==
    \A h \in DOMAIN task :
        (pc = "direct" /\ task[h].pc = "prov") =>
            /\ task[h].k = hist.misses + 1
            /\ hist.got = NoLoc

C27_PublicTarget(h) ==
    IF h = "8.8.8.8" THEN {h}
    ELSE IF h \in DomainSet /\ hist.dns = "a" THEN {AnswerIP}
    ELSE {}

\* C27: a call for a public IPv4 literal, or for a domain that resolves to
\* one, with no cache entry for it, does not return before a provider was
\* asked about the address, and returns the record of the provider that
\* answered; only private, loopback and malformed hosts return unasked
C27_PublicHostQueried ==
    \A h \in DOMAIN task :
        (/\ pc = "direct" /\ calls = 1 /\ task[h].pc = "done"
         /\ Get(hist.cache0, h) = NoLoc /\ C27_PublicTarget(h) # {})
        => /\ C27_PublicTarget(h) \subseteq provLog
           /\ (hist.got # NoLoc /\ ~hist.refused) => task[h].result = hist.got

\* C29: the decoded document has one line for every input line, in input
\* order, and the alias written into the line at position i carries the
\* index i, also behind lines that were passed through as they came: no two
\* rewritten lines of a run carry the same index
C29_IndexIsPosition ==
    pc = "done" =>
        /\ safeB64Decode(doc) = doc.text
        /\ Len(doc.text.lines) = Len(input)
        /\ \A i \in 1 .. Len(input) :
              LET l == doc.text.lines[i]
              IN /\ l.scheme = input[i].scheme
                 /\ l # input[i] => AliasOf(l).num = i
        /\ \A i, j \in 1 .. Len(input) :
              LET a == doc.text.lines[i]
                  b == doc.text.lines[j]
              IN (i # j /\ a # input[i] /\ b # input[j]) => AliasOf(a).num # AliasOf(b).num

C29_Witness ==
    /\ pc = "done" /\ Len(input) >= 3
    /\ input[1] = BrokenVmess /\ doc.text.lines[1] = BrokenVmess
    /\ doc.text.lines[2] # input[2] /\ AliasOf(doc.text.lines[2]).num = 2
    /\ doc.text.lines[3] # input[3] /\ AliasOf(doc.text.lines[3]).num = 3

\* the location parts an alias gets for a resolved record
C30_PartsFor(record) ==
    IF record # NoLoc /\ record.country # "" THEN <<record.flag, record.country>> ELSE <<>>

\* C30: with addLocationFlag off a run calls no resolution, issues no DNS or
\* provider request, leaves the cache as it was and writes no location part
\* into an alias; with it on, the location parts of a line are those of the
\* record resolved for the line's original server address, also when the
\* CDN rule has put another address into the line
C30_LocationSwitch ==
    /\ ~options.addLocationFlag =>
          /\ DOMAIN invoked = {} /\ DOMAIN task = {} /\ provLog = {}
          /\ cache = EmptyCache /\ DOMAIN results = {}
          /\ pc = "done" =>
                \A i \in 1 .. Len(input) :
                    doc.text.lines[i] # input[i]
                    => LocationPartsOf(doc.text.lines[i]) = <<>>
    /\ (options.addLocationFlag /\ pc = "done") =>
          \A i \in 1 .. Len(input) :
              doc.text.lines[i] # input[i]
              => /\ LocationPartsOf(doc.text.lines[i])
                      = C30_PartsFor(TaskOf(extractHost(input[i])).result)
                 /\ Get(results, extractHost(input[i]))
                      = TaskOf(extractHost(input[i])).result

C30_Witness ==
    /\ pc = "done" /\ options.addLocationFlag
    /\ \E i \in 1 .. Len(input) :
          /\ extractHost(input[i]) = Domains[1]
          /\ AddressOf(doc.text.lines[i]) = "1.2.3.4"
          /\ TaskOf(Domains[1]).result = LocUS
          /\ LocationPartsOf(doc.text.lines[i]) = <<LocUS.flag, LocUS.country>>

\* ------------------------------------------------------------------ SpecWritable

\* C23: while the store accepts writes, whatever the order in which the
\* resolutions of a group complete, the persisted cache holds an entry for
\* every host that resolved, equal to the record returned for it: no write
\* is lost to the write for another host
C23_NoLostWrite ==
    \A h \in DOMAIN results : Get(cache, h) = results[h]

C23_Witness ==
    /\ pc = "done" /\ GroupSize(rev) >= 2 /\ Len(hosts) >= 2
    /\ hosts[1] \in DOMAIN results /\ hosts[2] \in DOMAIN results
    /\ results[hosts[1]] # results[hosts[2]]
    /\ Get(cache, hosts[1]) = results[hosts[1]]
    /\ Get(cache, hosts[2]) = results[hosts[2]]

\* ------------------------------------------------------------------ Spec, further claims

\* the hosts whose resolution has started and has not completed
InFlight == {h \in DOMAIN task : task[h].pc \notin {"idle", "done"}}

\* C24: at every moment of batchResolve at most one group's worth of
\* resolutions is in flight: 2 in the current resolver, 3 in the chunked
\* revision, whatever the host list and the order of completion
C24_GroupSizeBound ==
    Cardinality(InFlight) <= IF rev = "robust_v5" THEN CHUNK_SIZE ELSE BATCH_SIZE

C24_Witness ==
    /\ rev = "robust_v5" /\ Len(hosts) > CHUNK_SIZE
    /\ Cardinality(InFlight) = CHUNK_SIZE
    /\ \E h \in InFlight : task[h].pc = "prov"

====
